---- MODULE Spec2Model ----
(***************************************************************************)
(* A model of tcn_sequence_models/data_processing/dataset.py: the DataSet  *)
(* object, its processing passes (process, process_from_config), its       *)
(* configuration store (save_dataset_config, load_dataset_config) and its  *)
(* split engine (train_test_split, train_test_split_date).                 *)
(*                                                                         *)
(* Conventions.  A Python value that may be None is a sequence of length   *)
(* zero (None) or one (Some(v)).  Row and window indices are 0-based, as   *)
(* in the program; element i of a Python list is element i+1 of the        *)
(* sequence that models it.  A float ratio is kept exact, as the pair      *)
(* <<numerator, denominator>>.  A timestamp is a day number; several rows  *)
(* may share a day (sub-daily data).                                       *)
(***************************************************************************)
EXTENDS Integers, Sequences, FiniteSets, TLC

\* ------------------------------------------------------------------ bounds
\* Longest table of the enumerated tables.
MaxRows == 4
\* Window lengths offered to process / process_from_config: 1..MaxSeqLen.
MaxSeqLen == 2
\* Days of the enumerated tables: FirstDate..LastDate.
FirstDate == 30
LastDate == 31
\* Length of a calendar month in days (months are Month(d) below).
DaysPerMonth == 30
\* Cap on the length of temporal_encodings (it can grow without limit).
MaxEnc == 2
\* Cap on the length of a feature-name list (it can grow without limit).
MaxFeat == 4

\* ------------------------------------------------------------- Python values
None == <<>>
Some(v) == <<v>>
IsNone(x) == x = <<>>
Val(x) == x[1]

\* A Python list l, as the sequence of its indices 0 .. len(l)-1.
Indices(n) == [i \in 1..n |-> i - 1]

\* l + [x] on lists.
Concat(l, xs) == l \o xs

\* The calendar month (1..12) of a day number: `.dt.month`.
Month(d) == (((d - 1) \div DaysPerMonth) % 12) + 1

\* ------------------------------------------------------------------ inputs
Dates == FirstDate..LastDate

\* Chronologically ordered tables (spec section 3): day numbers, row by row.
IsOrdered(t) == \A i \in 1..(Len(t) - 1) : t[i] <= t[i + 1]
TablesOfLen(n) == {t \in [1..n -> Dates] : IsOrdered(t)}
SmallTables == UNION {TablesOfLen(n) : n \in 1..MaxRows}

\* The table of the spec's concrete scenarios: 100 rows, one row a day.
\* Row 50 (0-based) is dated ScenarioDate.
ScenarioTable == [i \in 1..100 |-> i]
ScenarioLens == <<10, 5>>
ScenarioDate == ScenarioTable[50 + 1]

SeqLens == 1..MaxSeqLen
Ratios == {<<1, 2>>, <<4, 5>>, <<1, 4>>}
ModeLists == {<<"hours">>, <<"hours", "months">>}
MonthSets == {{1}, {2}, {6, 7, 8}}
ArtifactNames == {"dataset_config.json", "NaNHandler.pkl", "OneHotEncoder.pkl",
                  "scaler_X.pkl", "scaler_y.pkl"}

VARIABLES df_raw, df_processed, features_input_encoder, features_input_decoder,
          feature_target, input_seq_len, output_seq_len, temporal_encodings,
          scaler_X, scaler_y, X, y, autoregressive, nan_handler,
          one_hot_encoder, disk, call, history

\* The fields a Dataset Configuration is made of.
configFields == <<features_input_encoder, features_input_decoder,
                  feature_target, temporal_encodings, autoregressive,
                  input_seq_len, output_seq_len, nan_handler, one_hot_encoder,
                  scaler_X, scaler_y>>
dataFields == <<df_processed, X, y>>
vars == <<df_raw, df_processed, features_input_encoder,
          features_input_decoder, feature_target, input_seq_len,
          output_seq_len, temporal_encodings, scaler_X, scaler_y, X, y,
          autoregressive, nan_handler, one_hot_encoder, disk, call, history>>

\* DataSet.__init__(df): every field but df_raw starts empty.
DataSetInit(df) ==
    /\ df_raw = df
    /\ df_processed = None
    /\ features_input_encoder = None
    /\ features_input_decoder = None
    /\ feature_target = None
    /\ input_seq_len = None
    /\ output_seq_len = None
    /\ temporal_encodings = <<>>
    /\ scaler_X = None
    /\ scaler_y = None
    /\ X = None
    /\ y = None
    /\ autoregressive = FALSE
    /\ nan_handler = None
    /\ one_hot_encoder = None

\* call is the last call made on the DataSet: its arguments and its outcome
\* (status is "ok" or the exception raised, ret what it returned; a call that
\* computes a split ratio also has it as split_ratio).
NoCall == [op |-> "__init__", status |-> "ok", args |-> <<>>, ret |-> <<>>]

\* history says how the DataSet and the directory got where they are, as far
\* as a replay cares: "processed" after a process call that completed,
\* "saved" once the state that call left was saved and while nothing has
\* touched the DataSet or the directory since, "other" otherwise.
AfterProcess(status) == IF status = "ok" THEN "processed" ELSE "other"
AfterSave(h) == IF h \in {"processed", "saved"} THEN "saved" ELSE "other"

\* ------------------------------------------------ pandas / numpy operations
\* s[-1] on a non-empty pandas Index or list.
Last(s) == s[Len(s)]

\* df[df[col].dt.date <= split_date].index : a boundary slip of the filter.
PrecedingRowsInclusive(dates, split_date) ==
    LET Test(i) == dates[i + 1] <= split_date
    IN  SelectSeq(Indices(Len(dates)), Test)

\* df[df[col].dt.date < split_date].index : the rows dated before split_date,
\* in table order.
PrecedingRows(dates, split_date) ==
    LET Test(i) == dates[i + 1] < split_date
    IN  SelectSeq(Indices(Len(dates)), Test)

\* df[df[date_col].dt.month.isin(considered_months)].index
RowsInMonths(dates, months) ==
    LET Test(i) == Month(dates[i + 1]) \in months
    IN  SelectSeq(Indices(Len(dates)), Test)

\* idx[idx < bound] and idx[idx >= bound] on a pandas Index.
Below(idx, bound) ==
    LET Test(i) == i < bound
    IN  SelectSeq(idx, Test)
AtLeast(idx, bound) ==
    LET Test(i) == i >= bound
    IN  SelectSeq(idx, Test)

\* arr[idx] for an integer index array: numpy wraps a negative index -k to
\* len(arr) - k and raises IndexError outside -len(arr) .. len(arr) - 1.
TakeFails(arr, idx) ==
    \E k \in 1..Len(idx) : idx[k] >= Len(arr) \/ idx[k] < -Len(arr)
Take(arr, idx) ==
    [k \in 1..Len(idx) |->
        IF idx[k] >= 0 THEN arr[idx[k] + 1] ELSE arr[Len(arr) + idx[k] + 1]]
\* [x[idx] for x in Xs]
TakeEach(Xs, idx) == [c \in 1..Len(Xs) |-> Take(Xs[c], idx)]
\* idx - n on a pandas Index.
Minus(idx, n) == [k \in 1..Len(idx) |-> idx[k] - n]

\* round(num / den * w) as Python rounds a float: to the nearest integer,
\* a tie to the even one.
Round(ratio, w) ==
    LET p == ratio[1] * w
        q == p \div ratio[2]
        r == p % ratio[2]
    IN  IF 2 * r < ratio[2] THEN q
        ELSE IF 2 * r > ratio[2] THEN q + 1
        ELSE IF q % 2 = 0 THEN q ELSE q + 1

\* ------------------------------------------------------------ collaborators
\* "temporal_encoding_" + temp_enc
TemporalName(mode) == "temporal_encoding_" \o mode
TemporalNames(modes) == [i \in 1..Len(modes) |-> TemporalName(modes[i])]

\* df_raw.copy(): the table, with no derived column yet.
CopyOf(dates) == [dates |-> dates, cols |-> {}]

\* preprocessing.add_temporal_encoding: the table gains the mode's column;
\* the returned encoding is what was fitted (on the first fit_ratio rows).
AddTemporalColumns(df, modes) ==
    [df EXCEPT !.cols = @ \cup {TemporalName(modes[i]) : i \in 1..Len(modes)}]
FitTemporalEncoding(mode, split_ratio, feature) ==
    [fit_ratio |-> split_ratio, feature |-> feature]

\* A collaborator needs a table: handed None it raises.
Usable(df) == ~IsNone(df)
\* scale_input_data / scale_target_data with scaler=<a fitted scaler>: with
\* no scaler and no train_ratio there is nothing to scale with.
ScalesWith(scaler) == ~IsNone(scaler)

\* NaNHandler(min_rel_non_nan).fit(df), OneHotEncoder(min_rel_occurrence).fit(df)
FitNaNHandler(min_rel_non_nan, df) ==
    [min_rel_non_nan |-> min_rel_non_nan, fitted_on |-> df.cols]
FitOneHotEncoder(min_rel_occurrence, df) ==
    [min_rel_occurrence |-> min_rel_occurrence, fitted_on |-> df.cols]

\* utils.scaling.scale_input_data / scale_target_data with train_ratio: a
\* scaler fitted on the first train_ratio of the rows of the given columns.
FitScaler(columns, train_ratio) ==
    [columns |-> {columns[i] : i \in 1..Len(columns)}, train_ratio |-> train_ratio]

\* gen_sequences.extract_sequences_encoder_decoder (spec section 4.1), with
\* both downsampling ratios 1.  A window is the rows it reads, first and
\* last, and the columns it reads.  Window t of the five arrays:
WindowCount(n, Li, Lo) == n - Li - Lo + 1
Window(first, last, columns) == [rows |-> <<first, last>>, columns |-> columns]
\* One of the arrays: window t reads rows t + from .. t + to.
Windows(count, from, to, columns) ==
    [k \in 1..count |-> Window(k - 1 + from, k - 1 + to, columns)]
ExtractSequences(n, fe, fd, ft, Li, Lo) ==
    LET w == WindowCount(n, Li, Lo)
        count == IF w > 0 THEN w ELSE 0
    IN  << Windows(count, 0, Li - 1, fe),
           Windows(count, Li, Li + Lo - 1, fd),
           Windows(count, Li, Li + Lo - 1, <<ft>>),
           Windows(count, Li - 1, Li + Lo - 2, <<ft>>),
           Windows(count, Li - 1, Li - 1, <<ft>>) >>
\* The extractor fails on a table too short for one window.
ExtractFails(n, Li, Lo) == WindowCount(n, Li, Lo) <= 0

\* gen_sequences.train_test_split (spec section 4.2): the first
\* round(split_ratio * window_count) windows of every array go to train, the
\* rest to test, order kept.
Prefix(s, n) == SubSeq(s, 1, n)
Suffix(s, n) == SubSeq(s, n + 1, Len(s))
PrefixEach(Xs, n) == [c \in 1..Len(Xs) |-> Prefix(Xs[c], n)]
SuffixEach(Xs, n) == [c \in 1..Len(Xs) |-> Suffix(Xs[c], n)]
SplitAt(Xs, ys, n) ==
    [X_train |-> PrefixEach(Xs, n), y_train |-> Prefix(ys, n),
     X_test |-> SuffixEach(Xs, n), y_test |-> Suffix(ys, n)]
GenTrainTestSplit(Xs, ys, split_ratio) ==
    SplitAt(Xs, ys, Round(split_ratio, Len(Xs[1])))

\* ------------------------------------------------------------------ process
\* The (temp_enc, temporal_encoding) tuples process appends, one per mode.
NewEncodings(modes, split_ratio, feature) ==
    [i \in 1..Len(modes) |->
        [kind |-> "tuple", mode |-> modes[i],
         encoding |-> FitTemporalEncoding(modes[i], split_ratio, feature)]]

\* i_split / self.df_processed.shape[0] with the filter off by one row.
DateSplitRatioInclusive(dates, split_date) ==
    <<Last(PrecedingRowsInclusive(dates, split_date)), Len(dates)>>

\* i_split = df[df[col].dt.date < split_date].index[-1]
\* split_ratio = i_split / df.shape[0]
DateSplitRatio(dates, split_date) ==
    <<Last(PrecedingRows(dates, split_date)), Len(dates)>>

\* DataSet.process.  split_ratio, split_date and temporal_encoding_modes are
\* optional.  The pass stops at the first step that raises, keeping what the
\* steps before it assigned.
Process(time_col, fe, fd, ft, Li, Lo, split_ratio, split_date, temporal_encoding_modes, min_rel_occurrence, min_rel_non_nan, autoregressiive) ==
    LET args == [input_seq_len |-> Li, output_seq_len |-> Lo,
                 split_ratio |-> split_ratio, split_date |-> split_date,
                 modes |-> temporal_encoding_modes]
        asserted == ~IsNone(split_ratio) \/ ~IsNone(split_date)
        dateFails == /\ ~IsNone(split_date)
                     /\ PrecedingRows(df_raw, Val(split_date)) = <<>>
        ratio == IF ~IsNone(split_date)
                 THEN DateSplitRatio(df_raw, Val(split_date))
                 ELSE Val(split_ratio)
        modes == IF IsNone(temporal_encoding_modes) THEN <<>>
                 ELSE Val(temporal_encoding_modes)
        \* the local lists, rebuilt by `+` at every mode: the fields keep
        \* the caller's lists
        encoder == Concat(fe, TemporalNames(modes))
        decoder == Concat(fd, TemporalNames(modes))
        df == AddTemporalColumns(CopyOf(df_raw), modes)
        windowFails == ExtractFails(Len(df_raw), Li, Lo)
        bundle == ExtractSequences(Len(df_raw), encoder, decoder, ft, Li, Lo)
        status == IF ~asserted THEN "AssertionError"
                  ELSE IF dateFails THEN "IndexError"
                  ELSE IF windowFails THEN "InsufficientDataError"
                  ELSE "ok"
        c == [op |-> "process", status |-> status, args |-> args,
              split_ratio |-> IF status \in {"AssertionError", "IndexError"}
                              THEN None ELSE Some(ratio),
              ret |-> <<>>]
    IN  /\ Len(temporal_encodings) + Len(modes) <= MaxEnc
        /\ call' = c
        /\ history' = AfterProcess(status)
        /\ UNCHANGED <<df_raw, disk>>
        /\ IF ~asserted
           THEN UNCHANGED <<configFields, dataFields>>
           ELSE /\ df_processed' = Some(IF dateFails THEN CopyOf(df_raw) ELSE df)
                /\ autoregressive' = autoregressiive
                /\ features_input_encoder' = Some(fe)
                /\ features_input_decoder' = Some(fd)
                /\ feature_target' = Some(ft)
                /\ input_seq_len' = Some(Li)
                /\ output_seq_len' = Some(Lo)
                /\ IF dateFails
                   THEN UNCHANGED <<temporal_encodings, nan_handler,
                                    one_hot_encoder, scaler_X, scaler_y>>
                   ELSE /\ temporal_encodings' =
                              temporal_encodings \o NewEncodings(modes, ratio, ft)
                        /\ nan_handler' = Some(FitNaNHandler(min_rel_non_nan, df))
                        /\ one_hot_encoder' =
                              Some(FitOneHotEncoder(min_rel_occurrence, df))
                        /\ scaler_X' = Some(FitScaler(encoder \o decoder, ratio))
                        /\ scaler_y' = Some(FitScaler(<<ft>>, ratio))
                /\ IF dateFails \/ windowFails
                   THEN UNCHANGED <<X, y>>
                   ELSE /\ X' = Some(<<bundle[1], bundle[2], bundle[4], bundle[5]>>)
                        /\ y' = Some(bundle[3])

\* ------------------------------------------------------ configuration store
\* json.dump then json.load of the (mode, encoding) tuples: a tuple is
\* written as a JSON array and read back as a list.
JsonList(encodings) ==
    [i \in 1..Len(encodings) |-> [encodings[i] EXCEPT !.kind = "list"]]

\* config_dict of save_dataset_config, as json.load reads it back.
ConfigDict ==
    [features_input_encoder |-> features_input_encoder,
     features_input_decoder |-> features_input_decoder,
     feature_target |-> feature_target,
     temporal_encoding |-> JsonList(temporal_encodings),
     autoregressive |-> autoregressive,
     input_seq_len |-> input_seq_len,
     output_seq_len |-> output_seq_len]

\* DataSet.save_dataset_config: the five artifacts, written from the fields.
SaveDatasetConfig ==
    LET c == [op |-> "save_dataset_config", status |-> "ok", args |-> <<>>,
              ret |-> <<>>]
    IN  /\ disk' = [a \in ArtifactNames |->
                      CASE a = "dataset_config.json" -> Some(ConfigDict)
                        [] a = "NaNHandler.pkl" -> Some(nan_handler)
                        [] a = "OneHotEncoder.pkl" -> Some(one_hot_encoder)
                        [] a = "scaler_X.pkl" -> Some(scaler_X)
                        [] a = "scaler_y.pkl" -> Some(scaler_y)]
        /\ call' = c
        /\ history' = AfterSave(history)
        /\ UNCHANGED <<df_raw, configFields, dataFields>>

\* An artifact of the directory is deleted (by anything but the DataSet).
RemoveArtifact(a) ==
    /\ ~IsNone(disk[a])
    /\ disk' = [disk EXCEPT ![a] = None]
    /\ history' = "other"
    /\ UNCHANGED <<df_raw, configFields, dataFields, call>>

\* The order in which load_dataset_config opens the artifacts.
LoadOrder == <<"dataset_config.json", "NaNHandler.pkl", "OneHotEncoder.pkl",
               "scaler_X.pkl", "scaler_y.pkl">>
\* open() raises at the first artifact that is not there.
MissingArtifacts ==
    LET Test(a) == IsNone(disk[a])
    IN  SelectSeq(LoadOrder, Test)
LoadFails == MissingArtifacts # <<>>
Position(a) == CHOOSE i \in 1..Len(LoadOrder) : LoadOrder[i] = a
\* Artifact a is read, and its fields assigned, before the load stops.
IsRead(a) == \/ ~LoadFails
             \/ Position(a) < Position(MissingArtifacts[1])
Stored(a) == Val(disk[a])

\* The value load_dataset_config leaves in a field: the stored one once the
\* artifact holding it was read, otherwise the one it had (current).
AfterLoad(current, a, stored) == IF IsRead(a) THEN stored ELSE current

\* DataSet.load_dataset_config, assignment by assignment.
LoadAssignments(seq_len_in, seq_len_out) ==
    LET j == "dataset_config.json"
    IN  /\ features_input_encoder' =
              AfterLoad(features_input_encoder, j, Stored(j).features_input_encoder)
        /\ features_input_decoder' =
              AfterLoad(features_input_decoder, j, Stored(j).features_input_decoder)
        /\ feature_target' = AfterLoad(feature_target, j, Stored(j).feature_target)
        /\ temporal_encodings' =
              AfterLoad(temporal_encodings, j, Stored(j).temporal_encoding)
        /\ autoregressive' = AfterLoad(autoregressive, j, Stored(j).autoregressive)
        /\ input_seq_len' = AfterLoad(seq_len_in, j, Stored(j).input_seq_len)
        /\ output_seq_len' = AfterLoad(seq_len_out, j, Stored(j).output_seq_len)
        /\ nan_handler' = AfterLoad(nan_handler, "NaNHandler.pkl",
                                    Stored("NaNHandler.pkl"))
        /\ one_hot_encoder' = AfterLoad(one_hot_encoder, "OneHotEncoder.pkl",
                                        Stored("OneHotEncoder.pkl"))
        /\ scaler_X' = AfterLoad(scaler_X, "scaler_X.pkl", Stored("scaler_X.pkl"))
        /\ scaler_y' = AfterLoad(scaler_y, "scaler_y.pkl", Stored("scaler_y.pkl"))

LoadDatasetConfig ==
    LET c == [op |-> "load_dataset_config",
              status |-> IF LoadFails THEN "FileNotFoundError" ELSE "ok",
              args |-> <<>>,
              ret |-> [missing |-> MissingArtifacts]]
    IN  /\ LoadAssignments(input_seq_len, output_seq_len)
        /\ call' = c
        /\ history' = "other"
        /\ UNCHANGED <<df_raw, dataFields, disk>>

\* ------------------------------------------------------ process_from_config
\* The modes of a list of (mode, encoding) entries: temp_enc[0] of each.
ModesOf(encodings) == [i \in 1..Len(encodings) |-> encodings[i].mode]

\* (X_encoder, X_decoder, y, y_last) = <a tuple>: the unpacking raises unless
\* the tuple has as many elements as there are names.
Unpacks(tuple, names) == Len(tuple) = names

\* DataSet.process_from_config.  input_seq_len and output_seq_len are
\* optional.  The pass stops at the first step that raises, keeping what the
\* steps before it assigned.
ProcessFromConfig(arg_input_seq_len, arg_output_seq_len) ==
    LET j == "dataset_config.json"
        \* lines 235-238
        pre_in == IF ~IsNone(arg_input_seq_len) THEN arg_input_seq_len
                  ELSE input_seq_len
        pre_out == IF ~IsNone(arg_output_seq_len) THEN arg_output_seq_len
                   ELSE output_seq_len
        \* the fields as load_dataset_config leaves them
        cfg == Stored(j)
        modes == ModesOf(cfg.temporal_encoding)
        \* the loop over self.temporal_encodings
        tableFails == ~Usable(df_processed)
        appendFails == /\ modes # <<>>
                       /\ \/ IsNone(cfg.features_input_encoder)
                          \/ IsNone(cfg.features_input_decoder)
        looped == ~LoadFails /\ ~(modes # <<>> /\ (tableFails \/ appendFails))
        \* the loop raises at its first .append: the table has the first
        \* column, and the encoder list its name unless it is the None one
        broke == ~LoadFails /\ modes # <<>> /\ ~tableFails /\ appendFails
        encoder == Concat(Val(cfg.features_input_encoder), TemporalNames(modes))
        decoder == Concat(Val(cfg.features_input_decoder), TemporalNames(modes))
        \* the fitted transformers, applied
        scalerFails == \/ ~ScalesWith(Stored("scaler_X.pkl"))
                       \/ ~ScalesWith(Stored("scaler_y.pkl"))
        argumentMissing ==
            \/ IsNone(cfg.features_input_encoder)
            \/ IsNone(cfg.features_input_decoder)
            \/ IsNone(cfg.feature_target)
            \/ IsNone(cfg.input_seq_len)
            \/ IsNone(cfg.output_seq_len)
        \* the extraction, with the fields as they are when it is reached
        Li == Val(cfg.input_seq_len)
        Lo == Val(cfg.output_seq_len)
        n == Len(Val(df_processed).dates)
        bundle == ExtractSequences(n, encoder, decoder, Val(cfg.feature_target),
                                   Li, Lo)
        status ==
            IF LoadFails THEN "FileNotFoundError"
            ELSE IF modes # <<>> /\ tableFails THEN "CollaboratorError"
            ELSE IF appendFails THEN "AttributeError"
            ELSE IF IsNone(Stored("NaNHandler.pkl")) THEN "AttributeError"
            ELSE IF tableFails THEN "CollaboratorError"
            ELSE IF IsNone(Stored("OneHotEncoder.pkl")) THEN "AttributeError"
            ELSE IF scalerFails THEN "CollaboratorError"
            ELSE IF argumentMissing THEN "TypeError"
            ELSE IF ExtractFails(n, Li, Lo) THEN "InsufficientDataError"
            ELSE IF ~Unpacks(bundle, 4) THEN "ValueError"
            ELSE "ok"
        extracted == status \in {"InsufficientDataError", "ValueError", "ok"}
        c == [op |-> "process_from_config", status |-> status,
              args |-> [input_seq_len |-> arg_input_seq_len,
                        output_seq_len |-> arg_output_seq_len,
                        history |-> history],
              ret |-> IF extracted
                      THEN [extracted |-> TRUE,
                            input_seq_len |-> Li, output_seq_len |-> Lo,
                            features_input_encoder |-> encoder,
                            features_input_decoder |-> decoder]
                      ELSE [extracted |-> FALSE]]
    IN  /\ looped /\ modes # <<>>
              => Len(encoder) <= MaxFeat /\ Len(decoder) <= MaxFeat
        /\ call' = c
        /\ history' = "other"
        /\ UNCHANGED <<df_raw, disk>>
        /\ IF looped
           THEN /\ feature_target' = cfg.feature_target
                /\ temporal_encodings' = cfg.temporal_encoding
                /\ autoregressive' = cfg.autoregressive
                /\ input_seq_len' = cfg.input_seq_len
                /\ output_seq_len' = cfg.output_seq_len
                /\ nan_handler' = Stored("NaNHandler.pkl")
                /\ one_hot_encoder' = Stored("OneHotEncoder.pkl")
                /\ scaler_X' = Stored("scaler_X.pkl")
                /\ scaler_y' = Stored("scaler_y.pkl")
                \* .append on the loaded lists, once per encoding
                /\ features_input_encoder' =
                      IF modes = <<>> THEN cfg.features_input_encoder
                      ELSE Some(encoder)
                /\ features_input_decoder' =
                      IF modes = <<>> THEN cfg.features_input_decoder
                      ELSE Some(decoder)
                /\ df_processed' =
                      IF tableFails THEN df_processed
                      ELSE Some(AddTemporalColumns(Val(df_processed), modes))
           ELSE IF broke
           THEN /\ feature_target' = cfg.feature_target
                /\ temporal_encodings' = cfg.temporal_encoding
                /\ autoregressive' = cfg.autoregressive
                /\ input_seq_len' = cfg.input_seq_len
                /\ output_seq_len' = cfg.output_seq_len
                /\ nan_handler' = Stored("NaNHandler.pkl")
                /\ one_hot_encoder' = Stored("OneHotEncoder.pkl")
                /\ scaler_X' = Stored("scaler_X.pkl")
                /\ scaler_y' = Stored("scaler_y.pkl")
                /\ features_input_encoder' =
                      IF IsNone(cfg.features_input_encoder) THEN None
                      ELSE Some(Concat(Val(cfg.features_input_encoder),
                                       <<TemporalName(modes[1])>>))
                /\ features_input_decoder' = cfg.features_input_decoder
                /\ df_processed' =
                      Some(AddTemporalColumns(Val(df_processed), <<modes[1]>>))
           ELSE /\ LoadAssignments(pre_in, pre_out)
                /\ UNCHANGED df_processed
        /\ IF status = "ok"
           THEN /\ X' = Some(IF cfg.autoregressive
                             THEN <<bundle[1], bundle[2], bundle[4]>>
                             ELSE <<bundle[1], bundle[2]>>)
                /\ y' = Some(bundle[3])
           ELSE UNCHANGED <<X, y>>

\* -------------------------------------------------------------- split engine
\* A slip of the wrapper: the complement of the ratio is handed on.
train_test_split_complement(Xs, ys, split_ratio) ==
    GenTrainTestSplit(Xs, ys, <<split_ratio[2] - split_ratio[1], split_ratio[2]>>)

\* DataSet.train_test_split: gen_sequences.train_test_split on self.X, self.y.
train_test_split(Xs, ys, split_ratio) == GenTrainTestSplit(Xs, ys, split_ratio)

TrainTestSplit(split_ratio) ==
    LET status == IF IsNone(X) THEN "TypeError" ELSE "ok"
        c == [op |-> "train_test_split", status |-> status,
              args |-> [split_ratio |-> split_ratio],
              ret |-> IF status = "ok"
                      THEN Some(train_test_split(Val(X), Val(y), split_ratio))
                      ELSE None]
    IN  /\ call' = c
        /\ UNCHANGED <<df_raw, configFields, dataFields, disk, history>>

\* list(range(1, 13))
AllMonths == 1..12

\* DataSet.train_test_split_date.  considered_months is optional.
TrainTestSplitDate(date_col, split_date, considered_months) ==
    LET months == IF IsNone(considered_months) THEN AllMonths
                  ELSE Val(considered_months)
        dates == Val(df_processed).dates
        split_ratio == DateSplitRatio(dates, split_date)
        sp == train_test_split(Val(X), Val(y), split_ratio)
        n_train == Len(sp.X_train[1])
        n_test == Len(sp.X_test[1])
        \* remove indexes that are too large
        i_months == Below(RowsInMonths(dates, months), n_train + n_test)
        i_train == Below(i_months, n_train)
        i_test == Minus(AtLeast(i_months, Last(i_train)), n_train)
        status ==
            IF IsNone(df_processed) THEN "TypeError"
            ELSE IF PrecedingRows(dates, split_date) = <<>> THEN "IndexError"
            ELSE IF IsNone(X) THEN "TypeError"
            ELSE IF i_train = <<>> THEN "IndexError"
            ELSE IF TakeFails(sp.y_train, i_train) THEN "IndexError"
            ELSE IF TakeFails(sp.y_test, i_test) THEN "IndexError"
            ELSE "ok"
        ratioFails ==
            \/ IsNone(df_processed)
            \/ PrecedingRows(dates, split_date) = <<>>
        c == [op |-> "train_test_split_date", status |-> status,
              args |-> [split_date |-> split_date,
                        considered_months |-> considered_months],
              split_ratio |-> IF ratioFails THEN None ELSE Some(split_ratio),
              ret |-> IF status = "ok"
                      THEN Some([X_train |-> TakeEach(sp.X_train, i_train),
                                 y_train |-> Take(sp.y_train, i_train),
                                 X_test |-> TakeEach(sp.X_test, i_test),
                                 y_test |-> Take(sp.y_test, i_test)])
                      ELSE None]
    IN  /\ call' = c
        /\ UNCHANGED <<df_raw, configFields, dataFields, disk, history>>

\* ----------------------------------------------------------- specifications
TimeCol == "date / time"
EncoderFeatures == <<"temperature", "load">>
DecoderFeatures == <<"temperature">>
Target == "load"
Optional(S) == {None} \cup {Some(v) : v \in S}
SplitDates == FirstDate..(LastDate + 1)

\* One row a day, MaxRows rows.
DailyTable == [i \in 1..MaxRows |-> FirstDate + i - 1]

EmptyDirectory == [a \in ArtifactNames |-> None]

\* Replay: a DataSet over one table is processed, saved and replayed.
Init ==
    /\ \E df \in {DailyTable} : DataSetInit(df)
    /\ disk = EmptyDirectory
    /\ call = NoCall
    /\ history = "other"

ProcessCall ==
    \E Li \in SeqLens, Lo \in SeqLens, ratio \in Optional({<<1, 2>>}),
       modes \in Optional(ModeLists) :
        Process(TimeCol, EncoderFeatures, DecoderFeatures, Target, Li, Lo,
                ratio, None, modes, None, None, FALSE)
ProcessFromConfigCall ==
    \E Li \in Optional(SeqLens), Lo \in Optional(SeqLens) :
        ProcessFromConfig(Li, Lo)
RemoveArtifactCall == \E a \in ArtifactNames : RemoveArtifact(a)

Next ==
    \/ ProcessCall
    \/ SaveDatasetConfig
    \/ ProcessFromConfigCall

Spec == Init /\ [][Next]_vars

\* The configuration store: configurations are saved, damaged and loaded.
ProcessStoreCall ==
    \E Li \in SeqLens, auto \in BOOLEAN :
        Process(TimeCol, EncoderFeatures, DecoderFeatures, Target, Li, 1,
                Some(<<1, 2>>), None, Some(<<"hours">>), None, None, auto)

NextStore ==
    \/ ProcessStoreCall
    \/ SaveDatasetConfig
    \/ RemoveArtifactCall
    \/ LoadDatasetConfig

SpecStore == Init /\ [][NextStore]_vars

\* The split engine: a DataSet over any of the tables, processed and split.
SplitTables == SmallTables \cup {ScenarioTable}
SplitLens == (SeqLens \X SeqLens) \cup {ScenarioLens}

InitSplit ==
    /\ \E df \in SplitTables : DataSetInit(df)
    /\ disk = EmptyDirectory
    /\ call = NoCall
    /\ history = "other"

ProcessSplitCall ==
    \E lens \in SplitLens, date \in Optional({LastDate, ScenarioDate}) :
        Process(TimeCol, EncoderFeatures, DecoderFeatures, Target, lens[1],
                lens[2], IF IsNone(date) THEN Some(<<4, 5>>) ELSE None, date,
                None, None, None, FALSE)
TrainTestSplitCall == \E ratio \in Ratios : TrainTestSplit(ratio)
TrainTestSplitDateCall ==
    \E date \in SplitDates \cup {ScenarioDate}, months \in Optional(MonthSets) :
        TrainTestSplitDate(TimeCol, date, months)

NextSplit ==
    \/ ProcessSplitCall
    \/ TrainTestSplitCall
    \/ TrainTestSplitDateCall

SpecSplit == InitSplit /\ [][NextSplit]_vars

\* ------------------------------------------------------------------- claims
NoDuplicates(l) == \A i \in 1..Len(l), k \in 1..Len(l) : l[i] = l[k] => i = k
Json == "dataset_config.json"

\* C1: when process_from_config is called with an input_seq_len
\* (respectively output_seq_len) that is not None, the window length handed
\* to the sequence extraction in that call, and held by the DataSet after
\* it, is the caller's; the other scalar fields of the configuration
\* (target, autoregressive flag) take the loaded value.
C1_OverrideIsUsed ==
    (call.op = "process_from_config" /\ call.ret.extracted) =>
        /\ ~IsNone(call.args.input_seq_len) =>
              /\ call.ret.input_seq_len = Val(call.args.input_seq_len)
              /\ input_seq_len = call.args.input_seq_len
        /\ ~IsNone(call.args.output_seq_len) =>
              /\ call.ret.output_seq_len = Val(call.args.output_seq_len)
              /\ output_seq_len = call.args.output_seq_len
        /\ feature_target = Stored(Json).feature_target
        /\ autoregressive = Stored(Json).autoregressive

\* C2: load_dataset_config never partially populates state: called on a
\* directory in which one of the five artifacts is missing, it fails and
\* every configuration field keeps the value it had (the temporal encodings
\* compared as JSON holds them, a tuple and a list alike).
C2_LoadNeverPartial ==
    [][(/\ call'.op = "load_dataset_config"
        /\ disk' = disk
        /\ \E a \in ArtifactNames : IsNone(disk[a]))
       => /\ call'.status # "ok"
          /\ JsonList(temporal_encodings') = JsonList(temporal_encodings)
          /\ UNCHANGED <<features_input_encoder, features_input_decoder,
                         feature_target, autoregressive, input_seq_len,
                         output_seq_len, nan_handler, one_hot_encoder,
                         scaler_X, scaler_y>>]_vars

\* C6: after process(...) and save_dataset_config(p), process_from_config(p)
\* on the same raw data completes and leaves the bundle process made: self.X
\* is [X_encoder, X_decoder, y_shifted, y_last] over the same windows, and
\* self.y is the same.
C6_RoundTripReproduces ==
    (/\ call.op = "process_from_config"
     /\ call.args.history = "saved"
     /\ IsNone(call.args.input_seq_len)
     /\ IsNone(call.args.output_seq_len))
    => LET cfg == Stored(Json)
           names == TemporalNames(ModesOf(cfg.temporal_encoding))
           made == ExtractSequences(
                       Len(df_raw),
                       Concat(Val(cfg.features_input_encoder), names),
                       Concat(Val(cfg.features_input_decoder), names),
                       Val(cfg.feature_target),
                       Val(cfg.input_seq_len), Val(cfg.output_seq_len))
       IN  /\ call.status = "ok"
           /\ X = Some(<<made[1], made[2], made[4], made[5]>>)
           /\ y = Some(made[3])

\* C9: a replay does not change the configuration it replays: once
\* process_from_config(p) has loaded p, the encoder and decoder feature
\* lists of the DataSet are the lists stored in p, and the lists handed to
\* the extraction name no column twice.
C9_ReplayKeepsFeatureLists ==
    (call.op = "process_from_config" /\ call.status # "FileNotFoundError") =>
        /\ features_input_encoder = Stored(Json).features_input_encoder
        /\ features_input_decoder = Stored(Json).features_input_decoder
        /\ call.ret.extracted =>
              /\ NoDuplicates(call.ret.features_input_encoder)
              /\ NoDuplicates(call.ret.features_input_decoder)

\* C10: after a process call that completed, temporal_encodings has exactly
\* one entry for each mode of that call's temporal_encoding_modes, in that
\* order, and nothing left from earlier calls.
C10_EncodingsOfLastCall ==
    (call.op = "process" /\ call.status = "ok") =>
        ModesOf(temporal_encodings) =
            (IF IsNone(call.args.modes) THEN <<>> ELSE Val(call.args.modes))

\* The table and the date a date-based call works on.
DateSplitCall ==
    \/ call.op = "process" /\ ~IsNone(call.args.split_date)
    \/ call.op = "train_test_split_date" /\ ~IsNone(df_processed)
CallDate == IF call.op = "process" THEN Val(call.args.split_date)
            ELSE call.args.split_date
RowsBefore(dates, d) == {i \in 0..(Len(dates) - 1) : dates[i + 1] < d}
LastRowBefore(dates, d) ==
    CHOOSE i \in RowsBefore(dates, d) : \A k \in RowsBefore(dates, d) : k <= i
SameRatio(a, b) == a[1] * b[2] = b[1] * a[2]
OnScenario == df_raw = ScenarioTable /\ CallDate = ScenarioDate

\* The split ratio of a date-based split (in process and in
\* train_test_split_date) is index / total_row_count, index being the last
\* row dated before the split date; on the 100-row table with split_date the
\* date of row 50 it is num / den.
DateSplitRatioIs(num, den) ==
    (DateSplitCall /\ RowsBefore(df_raw, CallDate) # {}) =>
        /\ ~IsNone(call.split_ratio)
        /\ Val(call.split_ratio) =
              <<LastRowBefore(df_raw, CallDate), Len(df_raw)>>
        /\ OnScenario => SameRatio(Val(call.split_ratio), <<num, den>>)

\* C5, as amended: the ratio is index / total_row_count with index the last
\* row dated before the split date; for the 100-row table with strictly
\* increasing dates and split_date the date of row 50, it is 49/100.
C5_DateSplitRatio == DateSplitRatioIs(49, 100)
\* C5, as claimed: the same, the ratio of the 100-row scenario being 50/100.
C5_AsClaimed == DateSplitRatioIs(50, 100)
\* C5's case: the 100-row table split at the date of row 50.
C5_Witness ==
    /\ call.op = "train_test_split_date"
    /\ call.status = "ok"
    /\ OnScenario
    /\ call.split_ratio = Some(<<49, 100>>)

\* n is round(ratio * w): the integer nearest to it, the even one of two.
IsRounded(n, ratio, w) ==
    LET twice == 2 * (n * ratio[2] - ratio[1] * w)
        gap == IF twice < 0 THEN -twice ELSE twice
    IN  /\ gap <= ratio[2]
        /\ gap = ratio[2] => n % 2 = 0
IsSplitAt(part, Xs, ys, n) ==
    /\ part.y_train = SubSeq(ys, 1, n)
    /\ part.y_test = SubSeq(ys, n + 1, Len(ys))
    /\ Len(part.X_train) = Len(Xs) /\ Len(part.X_test) = Len(Xs)
    /\ \A c \in 1..Len(Xs) :
          /\ part.X_train[c] = SubSeq(Xs[c], 1, n)
          /\ part.X_test[c] = SubSeq(Xs[c], n + 1, Len(Xs[c]))

\* process makes N - Li - Lo + 1 windows (86 of 100 rows with Li = 10,
\* Lo = 5); train_test_split sends the first round(split_ratio * W) of the W
\* windows to train and the rest to test, order kept; of 86 windows at
\* split_ratio 0.8 that is `train` windows to train and `test` to test.
RatioSplitSizesAre(train, test) ==
    /\ (call.op = "process" /\ call.status = "ok") =>
          LET w == Len(df_raw) - Val(input_seq_len) - Val(output_seq_len) + 1
          IN  /\ Len(Val(y)) = w
              /\ \A c \in 1..Len(Val(X)) : Len(Val(X)[c]) = w
              /\ (/\ df_raw = ScenarioTable
                  /\ <<Val(input_seq_len), Val(output_seq_len)>> = ScenarioLens)
                 => w = 86
    /\ (call.op = "train_test_split" /\ call.status = "ok") =>
          LET w == Len(Val(y))
              part == Val(call.ret)
          IN  /\ \E n \in 0..w :
                    /\ IsRounded(n, call.args.split_ratio, w)
                    /\ IsSplitAt(part, Val(X), Val(y), n)
              /\ (w = 86 /\ call.args.split_ratio = <<4, 5>>)
                 => Len(part.y_train) = train /\ Len(part.y_test) = test

DatedSplit ==
    /\ call.op = "train_test_split_date"
    /\ ~IsNone(df_processed)
    /\ ~IsNone(X)
    /\ RowsBefore(df_raw, call.args.split_date) # {}
EquivalentRatio == <<LastRowBefore(df_raw, call.args.split_date), Len(df_raw)>>

\* C3: train_test_split_date with considered_months = None, on a date with
\* a row before it, returns exactly what train_test_split returns for the
\* ratio i_split / row_count: the same windows in the same order.
C3_DateSplitEqualsRatioSplit ==
    (DatedSplit /\ IsNone(call.args.considered_months)) =>
        /\ call.status = "ok"
        /\ call.ret = Some(train_test_split(Val(X), Val(y), EquivalentRatio))

\* C4: if the month filter leaves the train subset or the test subset of
\* train_test_split_date without a window (a window counts by the month of
\* its first row), the call completes and returns empty arrays for it.
C4_EmptySubsetIsReturned ==
    DatedSplit =>
        LET months == IF IsNone(call.args.considered_months) THEN AllMonths
                      ELSE Val(call.args.considered_months)
            part == train_test_split(Val(X), Val(y), EquivalentRatio)
            n_train == Len(part.y_train)
            w == Len(Val(y))
            kept == {i \in 0..(w - 1) : Month(df_raw[i + 1]) \in months}
            Empty(Xs, ys) == ys = <<>> /\ \A c \in 1..Len(Xs) : Xs[c] = <<>>
        IN  /\ {i \in kept : i < n_train} = {} =>
                  /\ call.status = "ok"
                  /\ Empty(Val(call.ret).X_train, Val(call.ret).y_train)
            /\ {i \in kept : i >= n_train} = {} =>
                  /\ call.status = "ok"
                  /\ Empty(Val(call.ret).X_test, Val(call.ret).y_test)

\* C7: no leakage: after train_test_split(r) on a table of N rows, every
\* window of the train partition reads only rows of index < r * N.
C7_NoLeakage ==
    (call.op = "train_test_split" /\ call.status = "ok") =>
        LET r == call.args.split_ratio
            part == Val(call.ret)
            Before(win) == win.rows[2] * r[2] < r[1] * Len(df_raw)
        IN  /\ \A k \in 1..Len(part.y_train) : Before(part.y_train[k])
            /\ \A c \in 1..Len(part.X_train) :
                  \A k \in 1..Len(part.X_train[c]) : Before(part.X_train[c][k])

====
